---- MODULE Spec2Model ----
(***************************************************************************)
(* A model of linguist-rs: the corpus loader (github.rs, serde.rs), the    *)
(* in-memory language container (container.rs, resolver.rs) and the        *)
(* resolver (resolver.rs).                                                 *)
(*                                                                         *)
(* Strings are TLA+ strings (sequences of characters): Len, SubSeq and \o  *)
(* act on them.  Option<Vec<&Language>> is a sequence of languages, None   *)
(* being the empty sequence (the code never returns Some of an empty       *)
(* vector); Option<&Language> is a sequence of length 0 or 1.              *)
(***************************************************************************)
EXTENDS Naturals, Sequences, FiniteSets, TLC

VARIABLES
    languages,      \* InMemoryLanguageContainer.languages: Vec<Language>
    heuristics,     \* InMemoryLanguageContainer.heuristics: HashMap<OsString, Vec<HeuristicRule>>
    op,             \* the operation that ran last
    arg,            \* its input (a path, a name, a file)
    result,         \* its return value
    probabilities,  \* resolve_language: the vote map at the end of evidence collection
    lookups,        \* resolve_language: the evidence sources it consulted
    language_set,   \* lib.rs: a LanguageSet (languages, extensions, filenames)
    breakdown       \* main.rs: the LanguageBreakdown (usages, total_size)

vars == <<languages, heuristics, op, arg, result, probabilities, lookups,
          language_set, breakdown>>

(***************************************************************************)
(* Bounds of the model.                                                    *)
(***************************************************************************)
MaxLangs == 2

\* the longest index list of a LanguageSet that is explored
MaxIndexes == 2

\* the largest total size of a LanguageBreakdown that is explored
MaxTotalSize == 6

(***************************************************************************)
(* Strings.                                                                *)
(***************************************************************************)
Char(s, i) == SubSeq(s, i, i)

Upper == "ABCDEFGHIJKLMNOPQRSTUVWXYZ"
Lower == "abcdefghijklmnopqrstuvwxyz"

\* char::to_lowercase, on ASCII
to_lowercase_char(c) ==
    IF \E i \in 1..Len(Upper) : Char(Upper, i) = c
    THEN Char(Lower, CHOOSE i \in 1..Len(Upper) : Char(Upper, i) = c)
    ELSE c

RECURSIVE to_lowercase(_)
\* str::to_lowercase
to_lowercase(s) ==
    IF s = "" THEN ""
    ELSE to_lowercase_char(Char(s, 1)) \o to_lowercase(SubSeq(s, 2, Len(s)))

\* the index of the first occurrence of character c in s, 0 when there is none
IndexOf(s, c) ==
    IF \E i \in 1..Len(s) : Char(s, i) = c
    THEN CHOOSE i \in 1..Len(s) :
            Char(s, i) = c /\ \A j \in 1..(i - 1) : Char(s, j) # c
    ELSE 0

\* the index of the last occurrence of character c in s, 0 when there is none
LastIndexOf(s, c) ==
    IF \E i \in 1..Len(s) : Char(s, i) = c
    THEN CHOOSE i \in 1..Len(s) :
            Char(s, i) = c /\ \A j \in (i + 1)..Len(s) : Char(s, j) # c
    ELSE 0

\* str::contains(sub)
str_contains(s, sub) ==
    \E i \in 1..(Len(s) + 1) :
        i + Len(sub) - 1 <= Len(s) /\ SubSeq(s, i, i + Len(sub) - 1) = sub

\* str::starts_with(pre)
starts_with(s, pre) == Len(pre) <= Len(s) /\ SubSeq(s, 1, Len(pre)) = pre

\* s without its i-th character (s itself when i = 0)
RemoveAt(s, i) ==
    IF i = 0 THEN s ELSE SubSeq(s, 1, i - 1) \o SubSeq(s, i + 1, Len(s))

\* str::replacen(".", "", 1): the first "." of the string removed, wherever it is
replacen_dot(s) == RemoveAt(s, IndexOf(s, "."))

RECURSIVE Split(_, _)
RECURSIVE SplitAt(_, _, _)
\* str::split(c) as a sequence of strings
Split(s, c) == SplitAt(s, c, IndexOf(s, c))

\* Split, given the index i of the first c in s
SplitAt(s, c, i) ==
    IF i = 0 THEN <<s>>
    ELSE <<SubSeq(s, 1, i - 1)>> \o Split(SubSeq(s, i + 1, Len(s)), c)

\* the elements of a vector
Elements(seq) == { seq[i] : i \in 1..Len(seq) }

\* Vec::contains
SeqContains(seq, x) == \E i \in 1..Len(seq) : seq[i] = x

RECURSIVE Filter(_, _)
\* Iterator::filter(..).collect() over a vector of languages, test given as a set
Filter(seq, keep) ==
    IF seq = <<>> THEN <<>>
    ELSE (IF Head(seq) \in keep THEN <<Head(seq)>> ELSE <<>>) \o Filter(Tail(seq), keep)

(***************************************************************************)
(* std::path::Path on Unix paths.                                          *)
(***************************************************************************)
RECURSIVE DropEmptyAndCurDir(_)
\* the segments of a path that are neither empty nor "."
DropEmptyAndCurDir(segs) ==
    IF segs = <<>> THEN <<>>
    ELSE (IF Head(segs) \in {"", "."} THEN <<>> ELSE <<Head(segs)>>)
         \o DropEmptyAndCurDir(Tail(segs))

\* Path::components without the root: empty and "." segments are dropped
NormalSegments(path) == DropEmptyAndCurDir(Split(path, "/"))

\* the last of the segments, unless it is ".."
LastNormal(segs) ==
    IF segs = <<>> THEN <<>>
    ELSE IF segs[Len(segs)] = ".." THEN <<>>
    ELSE <<segs[Len(segs)]>>

\* Path::file_name as a sequence: <<>> is None, <<n>> is Some(n)
file_name(path) == LastNormal(NormalSegments(path))

\* the part of file name n after its last ".", which is at index i (0: there is none)
AfterDot(n, i) ==
    IF i = 0 \/ i = 1 THEN <<>>      \* no dot, or only a leading dot
    ELSE <<SubSeq(n, i + 1, Len(n))>>

\* the extension of an optional file name
ExtensionOf(fn) ==
    IF fn = <<>> THEN <<>> ELSE AfterDot(fn[1], LastIndexOf(fn[1], "."))

\* Path::extension as a sequence: <<>> is None, <<e>> is Some(e)
extension(path) == ExtensionOf(file_name(path))

(***************************************************************************)
(* The corpus: languages.yml entries as serde reads them (GhLanguageDef,   *)
(* keyed by name), and the files of the walked tree.  color and group are  *)
(* copied through by the loader and read by no operation; they are left    *)
(* out of the records.                                                     *)
(***************************************************************************)
GhDef(n, t, al, ex, fns, ins) ==
    [name |-> n, scope |-> t, aliases |-> al, extensions |-> ex,
     filenames |-> fns, interpreters |-> ins]

GhLanguageDefs ==
    { GhDef("C",          "programming", <<>>,              <<".h", ".C">>,     <<>>,               <<>>),
      GhDef("ObjC",       "programming", <<"objective-c">>, <<".h">>,           <<>>,               <<>>),
      GhDef("Python",     "programming", <<"python3">>,     <<".py">>,          <<>>,               <<"python3">>),
      GhDef("Blade",      "markup",      <<>>,              <<".blade.php">>,   <<>>,               <<>>),
      GhDef("Dockerfile", "programming", <<>>,              <<".dockerfile">>,  <<"Dockerfile">>,   <<>>) }

\* The byte 0x00 is written "~" in the file contents of the model.
NUL == "~"

File(p, c) == [path |-> p, content |-> c]

\* The files the resolver is asked about.  NoFile is a path that cannot be opened.
NoFile == "?"

Files ==
    { File("a.h",            "@interface X\n@end\n"),
      File("a.h",            "int x;\n"),
      File("a.h",            "int x;" \o NUL \o "\n"),
      File("a.H",            "int x;\n"),
      File("a.txt",          "hello\n"),
      File("script",         "#!/usr/bin/env python3\nimport x\n"),
      File("Dockerfile",     "FROM x\n"),
      File("dir/Dockerfile", "FROM x\n"),
      File("x.blade.php",    "<p>\n"),
      File("gone.h",         NoFile) }

Paths == { f.path : f \in Files } \cup { "dockerfile", "x.h", "x.C", "x.c", "x.py", "x.dockerfile", "x.php", ".h", "h" }

Names == { d.name : d \in GhLanguageDefs } \cup { "c", "objc", "OBJC", "objective-c", "python3", "" }

(***************************************************************************)
(* The loader.                                                             *)
(***************************************************************************)
\* Scope::from(String)
ScopeFrom(value) ==
    LET v == to_lowercase(value)
    IN  IF v \in {"programming", "markup", "data", "prose"} THEN v ELSE "unknown"

\* Iterator::map(f).collect() for f = |ext| ext.replacen('.', "", 1)
MapReplacen(exts) == [i \in 1..Len(exts) |-> replacen_dot(exts[i])]

\* GhLanguageDef::try_into, with the name deserialize_languages sets from the key
try_into(def) ==
    [name         |-> def.name,
     scope        |-> ScopeFrom(def.scope),
     aliases      |-> def.aliases,
     filenames    |-> def.filenames,
     extensions   |-> MapReplacen(def.extensions),
     interpreters |-> def.interpreters]

(***************************************************************************)
(* The container.                                                          *)
(***************************************************************************)
\* Iterator::next: the first element of a sequence, as an Option
First(seq) == IF seq = <<>> THEN <<>> ELSE <<seq[1]>>

\* Iterator::find over a vector: the first element in `keep`, as an Option
Find(seq, keep) == First(Filter(seq, keep))

LangsOf(seq) == { seq[i] : i \in 1..Len(seq) }

\* resolver.rs: InMemoryLanguageContainer::get_language_by_name (exact comparison)
get_language_by_name(langs, name) ==
    Find(langs, { l \in LangsOf(langs) : l.name = name })

\* container.rs: InMemoryLanguageContainer::get_language_by_name (comparison of the lowercased names)
container_get_language_by_name(langs, name) ==
    Find(langs, { l \in LangsOf(langs) : to_lowercase(l.name) = to_lowercase(name) })

\* Option::or for the match of get_languages_by_extension
OrElse(a, b) == IF a # <<>> THEN a ELSE b

\* the key get_languages_by_extension looks up: the extension, else the file name
extension_key(path) == OrElse(extension(path), file_name(path))

\* the languages that list the key, None without a key
WithExtension(langs, ext) ==
    IF ext = <<>> THEN <<>>
    ELSE Filter(langs, { l \in LangsOf(langs) : SeqContains(l.extensions, ext[1]) })

\* InMemoryLanguageContainer::get_languages_by_extension
get_languages_by_extension(langs, path) == WithExtension(langs, extension_key(path))

\* InMemoryLanguageContainer::get_languages_by_filename: the whole path is the key
get_languages_by_filename(langs, path) ==
    Filter(langs, { l \in LangsOf(langs) : SeqContains(l.filenames, path) })

\* InMemoryLanguageContainer::get_languages_by_interpreter
get_languages_by_interpreter(langs, interpreter) ==
    Filter(langs, { l \in LangsOf(langs) : SeqContains(l.interpreters, interpreter) })

\* HashMap::get of an optional extension
RulesOf(heur, ext) ==
    IF ext = <<>> THEN <<>>
    ELSE IF ext[1] \in DOMAIN heur THEN heur[ext[1]] ELSE <<>>

\* InMemoryLanguageContainer::get_heuristics_by_extension: <<>> is None
get_heuristics_by_extension(heur, path) == RulesOf(heur, extension(path))

(***************************************************************************)
(* Return values.  Result<Option<..>, LinguistError>: Ok(Some(x)), Ok(None) *)
(* and Err(e).  A query of the container returns its Option directly.      *)
(***************************************************************************)
Ok(v)  == [ok |-> TRUE,  val |-> v,    err |-> ""]
Err(e) == [ok |-> FALSE, val |-> <<>>, err |-> e]

(***************************************************************************)
(* utils.rs                                                                *)
(***************************************************************************)
FIRST_FEW_BYTES == 8000

Min(a, b) == IF a <= b THEN a ELSE b

\* is_binary, were it to look at every byte of the file
is_binary_WholeFile(file) ==
    IF file.content = NoFile THEN Err("IOError")
    ELSE Ok(\E i \in 1..Len(file.content) : Char(file.content, i) = NUL)

\* is_binary: Err(IOError) when the file cannot be opened, else whether one of the
\* first FIRST_FEW_BYTES bytes is 0x00
is_binary(file) ==
    IF file.content = NoFile THEN Err("IOError")
    ELSE Ok(\E i \in 1..Min(Len(file.content), FIRST_FEW_BYTES) : Char(file.content, i) = NUL)

\* is_dotfile: the displayed path starts with "."
is_dotfile(path) == starts_with(path, ".")

CONFIGURATION_EXTENSIONS == <<"xml", "json", "toml", "yaml", "ini", "sql">>

\* CONFIGURATION_EXTENSIONS.contains(ext) for the optional extension of the path
IsConfigurationExtension(ext) ==
    IF ext # <<>> THEN SeqContains(CONFIGURATION_EXTENSIONS, ext[1]) ELSE FALSE

\* is_configuration
is_configuration(path) == IsConfigurationExtension(extension(path))

(***************************************************************************)
(* The documentation patterns.  Every pattern of DOCS has the shape        *)
(* anchor, name, tail: the anchor is "^", "(^|/)" or absent (""), the name  *)
(* is a finite alternation (character classes and optional parts written   *)
(* out), and the tail is "/", "$" or "(\.|$)".                             *)
(***************************************************************************)
Pattern(a, ns, t) == [anchor |-> a, names |-> ns, tail |-> t]

DOCS ==
    << Pattern("",      {"Docs", "docs", "Doc", "doc"},        "/"),       \* [Dd]ocs?/
       Pattern("(^|/)", {"Documentation", "documentation"},    "/"),       \* (^|/)[Dd]ocumentation/
       Pattern("(^|/)", {"Groovydoc", "groovydoc"},            "/"),       \* (^|/)[Gg]roovydoc/
       Pattern("(^|/)", {"Javadoc", "javadoc"},                "/"),       \* (^|/)[Jj]avadoc/
       Pattern("^",     {"Man", "man"},                        "/"),       \* ^[Mm]an/
       Pattern("^",     {"Examples", "examples"},              "/"),       \* ^[Ee]xamples/
       Pattern("^",     {"Demos", "demos", "Demo", "demo"},    "/"),       \* ^[Dd]emos?/
       Pattern("(^|/)", {"inst/doc"},                          "/"),       \* (^|/)inst/doc/
       Pattern("(^|/)", {"CITATION.cff", "CITATION", "CITATIONS", "CITATION.bib",
                         "CITATION.md", "CITATIONS.bib", "CITATIONS.md"},
                                                               "$"),       \* (^|/)CITATION(\.cff|(S)?(\.(bib|md))?)$
       Pattern("(^|/)", {"CHANGE", "CHANGES", "CHANGELOG"},    "(\\.|$)"), \* (^|/)CHANGE(S|LOG)?(\.|$)
       Pattern("(^|/)", {"CONTRIBUTING"},                      "(\\.|$)"), \* (^|/)CONTRIBUTING(\.|$)
       Pattern("(^|/)", {"COPYING"},                           "(\\.|$)"), \* (^|/)COPYING(\.|$)
       Pattern("(^|/)", {"INSTALL"},                           "(\\.|$)"), \* (^|/)INSTALL(\.|$)
       Pattern("(^|/)", {"LICENCE", "LICENSE"},                "(\\.|$)"), \* (^|/)LICEN[CS]E(\.|$)
       Pattern("(^|/)", {"Licence", "License", "licence", "license"},
                                                               "(\\.|$)"), \* (^|/)[Ll]icen[cs]e(\.|$)
       Pattern("(^|/)", {"README"},                            "(\\.|$)"), \* (^|/)README(\.|$)
       Pattern("(^|/)", {"Readme", "readme"},                  "(\\.|$)"), \* (^|/)[Rr]eadme(\.|$)
       Pattern("^",     {"Samples", "samples", "Sample", "sample"}, "/") >> \* ^[Ss]amples?/

\* the anchor of a pattern admits a match that starts at index i of the text
AnchorAt(anchor, text, i) ==
    CASE anchor = "^"     -> i = 1
      [] anchor = "(^|/)" -> i = 1 \/ Char(text, i - 1) = "/"
      [] OTHER            -> TRUE

\* the tail of a pattern matches the text from index j on
TailAt(tail, text, j) ==
    CASE tail = "/"       -> j <= Len(text) /\ Char(text, j) = "/"
      [] tail = "$"       -> j = Len(text) + 1
      [] OTHER            -> j = Len(text) + 1 \/ Char(text, j) = "."

\* the name is in the text at index i
NameAt(name, text, i) ==
    i + Len(name) - 1 <= Len(text) /\ SubSeq(text, i, i + Len(name) - 1) = name

\* Regex::is_match of one pattern
PatternIsMatch(pat, text) ==
    \E i \in 1..Len(text) : \E name \in pat.names :
        /\ AnchorAt(pat.anchor, text, i)
        /\ NameAt(name, text, i)
        /\ TailAt(pat.tail, text, i + Len(name))

\* RegexSet::is_match: one of the patterns of the set matches
RegexSetIsMatch(matcher, text) == \E k \in 1..Len(matcher) : PatternIsMatch(matcher[k], text)

\* is_documentation
is_documentation(path, matcher) == RegexSetIsMatch(matcher, path)

(***************************************************************************)
(* Heuristic rules and their patterns.  The patterns of the model are      *)
(* alternations of literal texts; a pattern with an unclosed "(" does not  *)
(* compile.                                                                *)
(***************************************************************************)
Rule(l, exts, pats) == [language |-> l, extensions |-> exts, patterns |-> pats]

HeuristicRules ==
    { Rule("ObjC", <<"h">>, <<"@interface", "@end">>),
      Rule("C",    <<"h">>, <<"int ">>),
      Rule("C",    <<"h">>, <<"(">>) }

HeuristicExts == {"h"}

RECURSIVE Join(_, _)
\* [String]::join(sep)
Join(seq, sep) ==
    IF seq = <<>> THEN ""
    ELSE IF Len(seq) = 1 THEN seq[1]
    ELSE seq[1] \o sep \o Join(Tail(seq), sep)

\* fancy_regex::Regex::new(pattern) is an error
RegexNewFails(pattern) == str_contains(pattern, "(") /\ ~ str_contains(pattern, ")")

\* fancy_regex::Regex::is_match(content) of a compiled alternation of literals
RegexIsMatch(pattern, content) ==
    LET alts == Split(pattern, "|")
    IN  \E i \in 1..Len(alts) : str_contains(content, alts[i])

(***************************************************************************)
(* heuristics.yml as serde reads it (YamlContent), and its loader.         *)
(* Option<T> is a sequence of length 0 or 1; RuleLanguage and PatternValue *)
(* are pairs of the variant and its value.                                 *)
(***************************************************************************)
None == <<>>
Some(x) == <<x>>

\* RuleLanguage::Single, PatternValue::Single
Single(val) == <<"Single", val>>

\* RuleLanguage::Multiple, PatternValue::Multiple
Multiple(val) == <<"Multiple", val>>

NamedPattern(p, np) == [pattern |-> p, named_pattern |-> np]

YamlRule(l, a, p) == [language |-> l, and_rules |-> a, pattern |-> p]

Disambiguation(exts, rs) == [extensions |-> exts, rules |-> rs]

\* The heuristics.yml of the model.
HeuristicsYaml ==
    [disambiguations |->
        << Disambiguation(<<".h">>,
            << YamlRule(Single("ObjC"),
                        Some(<<NamedPattern(Some("@end"), None)>>),
                        Some(Single("@interface"))),
               YamlRule(Single("C"), None, Some(Single("int "))),
               YamlRule(Single("C"), None, Some(Single("("))),
               YamlRule(Multiple(<<"C", "ObjC">>),
                        Some(<<NamedPattern(None, Some(Single("cpp")))>>),
                        None) >>) >>,
     named_patterns |-> [n \in {"cpp"} |-> Multiple(<<"#include", "std::">>)]]

\* impl Display for RuleLanguage, for PatternValue
Display(v) == IF v[1] = "Single" THEN v[2] ELSE Join(v[2], "|")

\* match rule.language { Single(val) => val, _ => "" }
RuleLanguageName(l) == IF l[1] = "Single" THEN l[2] ELSE ""

\* data.named_patterns.get(name), displayed; nothing when the name is not defined
NamedRef(named, name) ==
    IF name \in DOMAIN named THEN <<Display(named[name])>> ELSE <<>>

RECURSIVE NamedRefs(_, _)
\* the patterns the names of a PatternValue::Multiple stand for
NamedRefs(named, names) ==
    IF names = <<>> THEN <<>>
    ELSE NamedRef(named, Head(names)) \o NamedRefs(named, Tail(names))

\* the patterns a named_pattern reference stands for
ResolveNamed(named, v) ==
    IF v[1] = "Single" THEN NamedRef(named, v[2]) ELSE NamedRefs(named, v[2])

\* the patterns one entry of `and` adds: its pattern, then its named patterns
NamedPatternPatterns(named, ref) ==
    ref.pattern
    \o (IF ref.named_pattern # None THEN ResolveNamed(named, ref.named_pattern[1]) ELSE <<>>)

RECURSIVE AndPatterns(_, _)
\* for np_ref in refs { .. }
AndPatterns(named, refs) ==
    IF refs = <<>> THEN <<>>
    ELSE NamedPatternPatterns(named, Head(refs)) \o AndPatterns(named, Tail(refs))

\* the patterns of a rule: its pattern, then those of its `and` entries
RulePatterns(named, rule) ==
    (IF rule.pattern # None THEN <<Display(rule.pattern[1])>> ELSE <<>>)
    \o (IF rule.and_rules # None THEN AndPatterns(named, rule.and_rules[1]) ELSE <<>>)

\* the HeuristicRule built for one rule of a disambiguation
ToHeuristicRule(named, disambiguation, rule) ==
    Rule(RuleLanguageName(rule.language),
         MapReplacen(disambiguation.extensions),
         RulePatterns(named, rule))

\* for rule in disambiguation.rules { .. rules.push(heuristic_rule) }
RulesOfDisambiguation(named, disambiguation) ==
    [i \in 1..Len(disambiguation.rules) |->
        ToHeuristicRule(named, disambiguation, disambiguation.rules[i])]

RECURSIVE RulesOfDisambiguations(_, _)
\* for disambiguation in data.disambiguations { .. }
RulesOfDisambiguations(named, ds) ==
    IF ds = <<>> THEN <<>>
    ELSE RulesOfDisambiguation(named, Head(ds)) \o RulesOfDisambiguations(named, Tail(ds))

(***************************************************************************)
(* A corpus file as a loader meets it: a file that cannot be read, a text  *)
(* serde_yaml cannot parse into the expected shape, or a text it parses    *)
(* into the value val.                                                     *)
(***************************************************************************)
Missing == [readable |-> FALSE, parses |-> FALSE]
Unparsable == [readable |-> TRUE, parses |-> FALSE]
Parsed(v) == [readable |-> TRUE, parses |-> TRUE, val |-> v]

\* the rules of a document serde_yaml could parse, none for one it could not:
\* if let Ok(data) = data { .. }
RulesIfParsed(doc) ==
    IF doc.parses
    THEN RulesOfDisambiguations(doc.val.named_patterns, doc.val.disambiguations)
    ELSE <<>>

\* load_github_linguist_heuristics
load_github_linguist_heuristics(doc) ==
    IF ~ doc.readable THEN Err("IOError")           \* std::fs::read_to_string(path)?
    ELSE Ok(RulesIfParsed(doc))

\* is_unsupported_regex_syntax
is_unsupported_regex_syntax(input) ==
    \/ str_contains(input, "(?<")
    \/ str_contains(input, "(?=")
    \/ str_contains(input, "(?!")
    \/ str_contains(input, "(?>")
    \/ str_contains(input, "\\1")
    \/ str_contains(input, "*+")

RECURSIVE SupportedOnly(_)
\* for rule in raw { if !is_unsupported_regex_syntax(rule) { data.push(rule) } }
SupportedOnly(raw) ==
    IF raw = <<>> THEN <<>>
    ELSE (IF is_unsupported_regex_syntax(Head(raw)) THEN <<>> ELSE <<Head(raw)>>)
         \o SupportedOnly(Tail(raw))

\* load_github_vendors, load_github_documentation
load_github_vendors(doc) ==
    IF ~ doc.readable THEN Err("IOError")           \* std::fs::read_to_string(path)?
    ELSE IF ~ doc.parses THEN Err("panic")          \* serde_yaml::from_str(..).unwrap()
    ELSE Ok(SupportedOnly(doc.val))

\* load_github_documentation
load_github_documentation(doc) ==
    IF ~ doc.readable THEN Err("IOError")           \* std::fs::read_to_string(path)?
    ELSE IF ~ doc.parses THEN Err("panic")          \* serde_yaml::from_str(..).unwrap()
    ELSE Ok(SupportedOnly(doc.val))

\* deserialize_languages::<GhLanguageDef>: the entries of the mapping in the order
\* the HashMap iterates, each converted and named by its key
deserialize_languages(doc, order) ==
    IF ~ doc.parses THEN Err("DeserializationError")
    ELSE Ok([i \in 1..Len(order) |-> try_into(order[i])])

\* load_github_linguist_languages
load_github_linguist_languages(doc, order) ==
    IF ~ doc.readable THEN Err("FileNotFound")      \* !path.as_ref().exists()
    ELSE deserialize_languages(doc, order)

\* the rules main.rs registers
LoadedHeuristicRules == load_github_linguist_heuristics(Parsed(HeuristicsYaml)).val

(***************************************************************************)
(* resolver.rs                                                             *)
(***************************************************************************)
\* match container.get_..(file) { Some(langs) => Ok(langs), _ => Err(LanguageNotFound) }
OkOrNotFound(c) == IF c # <<>> THEN Ok(c) ELSE Err("LanguageNotFound")

\* resolve_languages_by_filename
resolve_languages_by_filename(langs, path) ==
    OkOrNotFound(get_languages_by_filename(langs, path))

\* resolve_languages_by_extension
resolve_languages_by_extension(langs, path) ==
    OkOrNotFound(get_languages_by_extension(langs, path))

RECURSIVE ContentLoop(_, _, _)
RECURSIVE ContentRule(_, _, _, _)
\* ContentRule, were a matching rule whose language is not found passed over
ContentRule_SkipUnknown(langs, rules, content, pattern) ==
    IF RegexNewFails(pattern) THEN Err("PatternCompileError")
    ELSE IF RegexIsMatch(pattern, content)
            /\ get_language_by_name(langs, Head(rules).language) # <<>>
         THEN Ok(get_language_by_name(langs, Head(rules).language))
         ELSE ContentLoop(langs, Tail(rules), content)

\* the loop of resolve_language_by_content over the rules of the extension
ContentLoop(langs, rules, content) ==
    IF rules = <<>> THEN Err("LanguageNotFound")
    ELSE ContentRule(langs, rules, content, Join(Head(rules).patterns, "|"))

\* one turn of the loop; `pattern` is the alternation of the rule's patterns
ContentRule(langs, rules, content, pattern) ==
    IF RegexNewFails(pattern) THEN Err("PatternCompileError")       \* Regex::new(..)?
    ELSE IF RegexIsMatch(pattern, content)
         THEN Ok(get_language_by_name(langs, Head(rules).language))
         ELSE ContentLoop(langs, Tail(rules), content)

\* resolve_language_by_content
resolve_language_by_content(langs, heur, file) ==
    IF file.content = NoFile THEN Err("FileNotFound")
    ELSE ContentLoop(langs, get_heuristics_by_extension(heur, file.path), file.content)

EmptyMap == [n \in {} |-> 0]

\* *probabilities.entry(name).or_insert(1) += 1
Vote(p, name) ==
    [n \in DOMAIN p \cup {name} |->
        IF n = name THEN (IF name \in DOMAIN p THEN p[name] ELSE 1) + 1 ELSE p[n]]

RECURSIVE VoteAll(_, _)
\* for candidate in candidates { vote for candidate.name }
VoteAll(p, candidates) ==
    IF candidates = <<>> THEN p
    ELSE VoteAll(Vote(p, Head(candidates).name), Tail(candidates))

\* the orders in which a HashMap with these keys may be iterated
IterationOrders(keys) ==
    { s \in [1..Cardinality(keys) -> keys] :
        \A i, j \in 1..Cardinality(keys) : i # j => s[i] # s[j] }

\* x put into the sorted keys after every key whose count is not larger
InsertSorted(p, sorted, x, k) ==
    SubSeq(sorted, 1, k) \o <<x>> \o SubSeq(sorted, k + 1, Len(sorted))

\* the number of keys of `sorted` whose count is at most that of x
NotLarger(p, sorted, x) == Cardinality({ i \in 1..Len(sorted) : p[sorted[i]] <= p[x] })

RECURSIVE SortByValue(_, _)
RECURSIVE SortInto(_, _, _)
\* Vec::sort_by_key(|(_, v)| v): a stable sort of the keys by their count, ascending
SortByValue(p, order) == SortInto(p, <<>>, order)

\* the stable insertion of the keys of `rest`, in their order, into `sorted`
SortInto(p, sorted, rest) ==
    IF rest = <<>> THEN sorted
    ELSE SortInto(p, InsertSorted(p, sorted, Head(rest), NotLarger(p, sorted, Head(rest))),
                  Tail(rest))

\* Vec::reverse
Reverse(seq) == [i \in 1..Len(seq) |-> seq[Len(seq) + 1 - i]]

\* if let Ok(candidates) = .. { for candidate in candidates { vote } }
VoteIfOk(p, r) == IF r.ok THEN VoteAll(p, r.val) ELSE p

\* the evidence collection of resolve_language: filename, extension, content
CollectVotes(langs, heur, file) ==
    VoteIfOk(VoteIfOk(VoteIfOk(EmptyMap,
                               resolve_languages_by_filename(langs, file.path)),
                      resolve_languages_by_extension(langs, file.path)),
             resolve_language_by_content(langs, heur, file))

\* Option::unwrap of the language found for the winning name
Unwrap(found) == IF found # <<>> THEN Ok(found) ELSE Err("panic")

\* FirstOf, succeeding with None when nothing was voted for
FirstOf_NoneWithoutVotes(langs, ordered) ==
    IF ordered # <<>> THEN Unwrap(get_language_by_name(langs, ordered[1]))
    ELSE Ok(<<>>)

\* ordered.get(0): the language of the first entry, Err(LanguageNotFound) without one
FirstOf(langs, ordered) ==
    IF ordered # <<>> THEN Unwrap(get_language_by_name(langs, ordered[1]))
    ELSE Err("LanguageNotFound")

\* PickWinner without ordered.reverse(): the lowest count comes first
PickWinner_NoReverse(langs, p, order) == FirstOf(langs, SortByValue(p, order))

\* the end of resolve_language: the first entry of the sorted, reversed votes
PickWinner(langs, p, order) == FirstOf(langs, Reverse(SortByValue(p, order)))

\* the evidence sources resolve_language consults for a file that is not binary
EvidenceSources == {"filename", "extension", "content"}

(***************************************************************************)
(* resolve_languages_by_shebang.  The files of the model are shorter than  *)
(* the BufReader's buffer, so that after the first line the buffer holds   *)
(* the rest of the file.                                                   *)
(***************************************************************************)
CharsOf(s) == { Char(s, i) : i \in 1..Len(s) }

Letters == CharsOf(Upper) \cup CharsOf(Lower)
Digits == CharsOf("0123456789")
WordChars == Letters \cup Digits \cup {"_"}
Whitespace == {" ", "\t", "\n", "\r", "\f"}

\* every character of s is in cs
AllIn(s, cs) == \A i \in 1..Len(s) : Char(s, i) \in cs

\* the index of the first character of s that is in cs, 0 when there is none
IndexOfIn(s, cs) ==
    IF \E i \in 1..Len(s) : Char(s, i) \in cs
    THEN CHOOSE i \in 1..Len(s) :
            Char(s, i) \in cs /\ \A j \in 1..(i - 1) : Char(s, j) \notin cs
    ELSE 0

\* the first i characters of s, all of s when i = 0
UpTo(s, i) == IF i = 0 THEN s ELSE SubSeq(s, 1, i)

\* BufRead::read_line: the text up to and with the first "\n"
read_line(data) == UpTo(data, IndexOf(data, "\n"))

\* the data that follows its first line
AfterLine(data) == SubSeq(data, Len(read_line(data)) + 1, Len(data))

RECURSIVE trim_start(_)
\* str::trim_start
trim_start(s) ==
    IF s # "" /\ Char(s, 1) \in Whitespace THEN trim_start(SubSeq(s, 2, Len(s))) ELSE s

RECURSIVE trim_end(_)
\* str::trim_end
trim_end(s) ==
    IF s # "" /\ Char(s, Len(s)) \in Whitespace THEN trim_end(SubSeq(s, 1, Len(s) - 1)) ELSE s

\* str::trim
trim(s) == trim_end(trim_start(s))

RECURSIVE split_whitespace(_)
RECURSIVE TakeField(_, _)
\* str::split_whitespace().collect()
split_whitespace(s) ==
    IF s = "" THEN <<>>
    ELSE IF Char(s, 1) \in Whitespace THEN split_whitespace(SubSeq(s, 2, Len(s)))
    ELSE TakeField(s, IndexOfIn(s, Whitespace))

\* the field that starts s and ends before index i (0: at the end of s), and the fields after it
TakeField(s, i) ==
    IF i = 0 THEN <<s>>
    ELSE <<SubSeq(s, 1, i - 1)>> \o split_whitespace(SubSeq(s, i + 1, Len(s)))

\* has_shebang
has_shebang(data) == starts_with(data, "#!")

\* Regex ^-[a-zA-Z]+$
env_opt_args(f) == Len(f) >= 2 /\ Char(f, 1) = "-" /\ AllIn(SubSeq(f, 2, Len(f)), Letters)

\* Regex ^\$[a-zA-Z_]+$
env_var_args(f) ==
    Len(f) >= 2 /\ Char(f, 1) = "$" /\ AllIn(SubSeq(f, 2, Len(f)), Letters \cup {"_"})

\* DropEnvArgs, were no field after env discarded
DropEnvArgs_KeepAll(fields) == fields

RECURSIVE DropEnvArgs(_)
\* while fields.len() > 2 { if fields[1] is an option or a variable { fields.remove(1) } else { break } }
DropEnvArgs(fields) ==
    IF Len(fields) > 2 /\ (env_opt_args(fields[2]) \/ env_var_args(fields[2]))
    THEN DropEnvArgs(<<fields[1]>> \o SubSeq(fields, 3, Len(fields)))
    ELSE fields

\* Regex exec (\w+).+\$0.+\$@ matches `line` with "exec " at index i and a command of w characters
ExecMatch(line, i, w) ==
    /\ w >= 1
    /\ i + 4 + w <= Len(line)
    /\ SubSeq(line, i, i + 4) = "exec "
    /\ AllIn(SubSeq(line, i + 5, i + 4 + w), WordChars)
    /\ \E j \in (i + 6 + w)..(Len(line) - 1) : \E k \in (j + 3)..(Len(line) - 1) :
        /\ SubSeq(line, j, j + 1) = "$0"
        /\ SubSeq(line, k, k + 1) = "$@"
        /\ "\n" \notin CharsOf(SubSeq(line, i + 5 + w, k - 1))

\* the regex matches the line somewhere
shebang_exec_is_match(line) ==
    \E i \in 1..Len(line) : \E w \in 1..Len(line) : ExecMatch(line, i, w)

\* the command captured by the leftmost match at index i: the longest that matches
CapturedAt(line, i) ==
    SubSeq(line, i + 5,
           i + 4 + CHOOSE w \in 1..Len(line) :
                       ExecMatch(line, i, w)
                       /\ \A v \in (w + 1)..Len(line) : ~ ExecMatch(line, i, v))

\* shebang_exec.captures(line).get(1)
shebang_exec_capture(line) ==
    CapturedAt(line, CHOOSE i \in 1..Len(line) :
                        /\ \E w \in 1..Len(line) : ExecMatch(line, i, w)
                        /\ \A h \in 1..(i - 1) : \A w \in 1..Len(line) : ~ ExecMatch(line, h, w))

ExecLines == 5

RECURSIVE ExecLoop_AllLines(_, _)
\* ExecLoop, were every line of the data scanned
ExecLoop_AllLines(data, n) ==
    IF data = "" THEN "sh"
    ELSE IF shebang_exec_is_match(read_line(data)) THEN shebang_exec_capture(read_line(data))
    ELSE ExecLoop_AllLines(AfterLine(data), n)

RECURSIVE ExecLoop(_, _)
\* the loop of determine_multiline_exec: at most n more lines of data
ExecLoop(data, n) ==
    IF n = 0 \/ data = "" THEN "sh"
    ELSE IF shebang_exec_is_match(read_line(data)) THEN shebang_exec_capture(read_line(data))
    ELSE ExecLoop(AfterLine(data), n - 1)

\* determine_multiline_exec
determine_multiline_exec(data) == ExecLoop(data, ExecLines)

\* if interpreter == "sh" { interpreter = determine_multiline_exec(buf.buffer()) }
ShExec(interpreter, buffer) ==
    IF interpreter = "sh" THEN determine_multiline_exec(buffer) ELSE interpreter

\* Regex ^python[0-9]*\.[0-9]* matches
python_version(interpreter) ==
    /\ starts_with(interpreter, "python")
    /\ \E i \in 7..Len(interpreter) :
        Char(interpreter, i) = "." /\ AllIn(SubSeq(interpreter, 7, i - 1), Digits)

\* if python_version.is_match(..) { interpreter = interpreter.split('.').next() }
PythonTruncate(interpreter) ==
    IF python_version(interpreter) THEN Split(interpreter, ".")[1] ELSE interpreter

\* Osascript, were the interpreter kept whatever the line holds
Osascript_Keep(interpreter, line) == interpreter

\* if interpreter == "osascript" && line.contains("-l") { interpreter = "" }
Osascript(interpreter, line) ==
    IF interpreter = "osascript" /\ str_contains(line, "-l") THEN "" ELSE interpreter

\* the interpreter after the sh, python and osascript steps
FinishInterpreter(interpreter, buffer, line) ==
    Ok(<<Osascript(PythonTruncate(ShExec(interpreter, buffer)), line)>>)

\* Path::new(field).file_name().unwrap() and the steps after it
FromBasename(base, buffer, line) ==
    IF base = <<>> THEN Err("panic") ELSE FinishInterpreter(base[1], buffer, line)

\* the env branch: the interpreter is the field after env and its options
AfterEnv(fields, buffer, line) ==
    IF Len(fields) = 1 THEN Ok(<<>>)
    ELSE FromBasename(file_name(DropEnvArgs(fields)[2]), buffer, line)

\* the interpreter, given the basename of the first field
AfterFirstField(fields, base, buffer, line) ==
    IF base = <<>> THEN Err("panic")
    ELSE IF base[1] = "env" THEN AfterEnv(fields, buffer, line)
    ELSE FinishInterpreter(base[1], buffer, line)

\* the interpreter of the fields of the shebang line
FromFields(fields, buffer, line) ==
    IF fields = <<>> THEN Ok(<<>>)
    ELSE AfterFirstField(fields, file_name(fields[1]), buffer, line)

\* the interpreter of a line that starts with "#!"; `line` is the trimmed text after "#!"
FromLine(line, buffer) == FromFields(split_whitespace(line), buffer, line)

\* the interpreter the file's shebang names: Ok(None) without one, Ok(Some(name)),
\* or a panic of an unwrap
shebang_interpreter(content) ==
    IF ~ has_shebang(read_line(content)) THEN Ok(<<>>)
    ELSE FromLine(trim(SubSeq(read_line(content), 3, Len(read_line(content)))),
                  AfterLine(content))

\* container.get_languages_by_interpreter of the interpreter found
ByInterpreter(langs, interp) ==
    IF ~ interp.ok THEN interp
    ELSE IF interp.val = <<>> THEN Ok(<<>>)
    ELSE Ok(get_languages_by_interpreter(langs, interp.val[1]))

\* resolve_languages_by_shebang
resolve_languages_by_shebang(langs, file) ==
    IF file.content = NoFile THEN Err("IOError")
    ELSE ByInterpreter(langs, shebang_interpreter(file.content))

\* what a call of resolve_language leaves behind
Outcome(r, p, l) == [result |-> r, probabilities |-> p, lookups |-> l]

RECURSIVE KeysInOrder(_, _)
\* the iteration order of the vote map: `order` restricted to its keys
KeysInOrder(p, order) ==
    IF order = <<>> THEN <<>>
    ELSE (IF Head(order) \in DOMAIN p THEN <<Head(order)>> ELSE <<>>)
         \o KeysInOrder(p, Tail(order))

\* resolve_language after the binary check, with the votes p collected
Resolved(langs, p, order) ==
    Outcome(PickWinner(langs, p, KeysInOrder(p, order)), p, EvidenceSources)

\* AfterBinaryCheck without the early return for a binary file
AfterBinaryCheck_NoEarlyReturn(langs, heur, file, order, b) ==
    IF ~ b.ok THEN Outcome(b, EmptyMap, {})
    ELSE Resolved(langs, CollectVotes(langs, heur, file), order)

\* resolve_language given the result b of is_binary
AfterBinaryCheck(langs, heur, file, order, b) ==
    IF ~ b.ok THEN Outcome(b, EmptyMap, {})                     \* is_binary(&file)?
    ELSE IF b.val THEN Outcome(Ok(<<>>), EmptyMap, {})          \* return Ok(None)
    ELSE Resolved(langs, CollectVotes(langs, heur, file), order)

\* resolve_language; `order` is the order in which the HashMap of votes happens to
\* iterate (std's RandomState: any order)
resolve_language(langs, heur, file, order) ==
    AfterBinaryCheck(langs, heur, file, order, is_binary(file))

(***************************************************************************)
(* lib.rs: LanguageSet.  The indexes are those of the Vec, from 0.         *)
(***************************************************************************)
LanguageInfo(n, al, exts, fns) ==
    [name |-> n, aliases |-> al, extensions |-> exts, filenames |-> fns]

LanguageSetOf(ls, exts, fns) == [languages |-> ls, extensions |-> exts, filenames |-> fns]

\* LanguageSet::new
LanguageSet_new == LanguageSetOf(<<>>, EmptyMap, EmptyMap)

\* if let Some(langs) = map.get_mut(key) { langs.push(idx) } else { map.insert(key, vec![idx]) }
PushIndex(map, key, idx) ==
    IF key \in DOMAIN map
    THEN [map EXCEPT ![key] = Append(@, idx)]
    ELSE [k \in DOMAIN map \cup {key} |-> IF k = key THEN <<idx>> ELSE map[k]]

RECURSIVE PushIndexes(_, _, _)
\* keys.iter().for_each(|key| ..)
PushIndexes(map, keys, idx) ==
    IF keys = <<>> THEN map
    ELSE PushIndexes(PushIndex(map, Head(keys), idx), Tail(keys), idx)

\* LanguageSet::register_language: the set after the call
LanguageSet_register_language(set, lang) ==
    LanguageSetOf(Append(set.languages, lang),
                  PushIndexes(set.extensions, lang.extensions, Len(set.languages)),
                  PushIndexes(set.filenames, lang.filenames, Len(set.languages)))

\* the languages a name stands for: by name or by alias
NamedBy(langs, name) ==
    { i \in 1..Len(langs) : langs[i].name = name \/ SeqContains(langs[i].aliases, name) }

\* Iterator::position, counted from 1; 0 when no language has the name
PositionByName(langs, name) ==
    IF NamedBy(langs, name) = {} THEN 0
    ELSE CHOOSE i \in NamedBy(langs, name) : \A j \in NamedBy(langs, name) : i <= j

\* Vec::retain(|&x| x != idx)
Retain(idxs, idx) == SelectSeq(idxs, LAMBDA x : x # idx)

\* Vec::remove of the element at position i, counted from 1
RemoveLanguage(langs, i) == SubSeq(langs, 1, i - 1) \o SubSeq(langs, i + 1, Len(langs))

\* remove_language_by_name for the language at position i: its index leaves the
\* extension index and the language leaves the vector
RemoveAtPosition(set, i) ==
    LanguageSetOf(RemoveLanguage(set.languages, i),
                  [k \in DOMAIN set.extensions |-> Retain(set.extensions[k], i - 1)],
                  set.filenames)

\* LanguageSet::remove_language_by_name: the set after the call
LanguageSet_remove_language_by_name(set, name) ==
    IF PositionByName(set.languages, name) = 0 THEN set
    ELSE RemoveAtPosition(set, PositionByName(set.languages, name))

\* what remove_language_by_name returns
RemoveResult(set, name) ==
    IF PositionByName(set.languages, name) = 0 THEN Err("LanguageNotFound") ELSE Ok(<<>>)

\* .iter().map(|idx| &self.languages[*idx]).collect(): an index beyond the vector panics
LanguagesAt(langs, idxs) ==
    IF \E i \in 1..Len(idxs) : idxs[i] >= Len(langs) THEN Err("panic")
    ELSE Ok([i \in 1..Len(idxs) |-> langs[idxs[i] + 1]])

\* map.get(key).unwrap() and the languages of the indexes found
Indexed(langs, map, key) ==
    IF key \notin DOMAIN map THEN Err("panic") ELSE LanguagesAt(langs, map[key])

\* resolve_languages_by_extension for the key of the path, None without a key
ResolveKey(set, key) ==
    IF key = <<>> THEN Ok(<<>>) ELSE Indexed(set.languages, set.extensions, key[1])

\* LanguageSet::resolve_languages_by_extension
LanguageSet_resolve_languages_by_extension(set, path) == ResolveKey(set, extension_key(path))

\* LanguageSet::resolve_languages_by_filename
LanguageSet_resolve_languages_by_filename(set, path) ==
    Indexed(set.languages, set.filenames, path)

(***************************************************************************)
(* main.rs: LanguageBreakdown.                                             *)
(***************************************************************************)
\* the breakdown main starts with
LanguageBreakdown_new == [usages |-> EmptyMap, total_size |-> 0]

\* self.usages.entry(lang).or_insert(size): the map with the entry present
or_insert(usages, lang, size) ==
    IF lang \in DOMAIN usages THEN usages
    ELSE [k \in DOMAIN usages \cup {lang} |-> IF k = lang THEN size ELSE usages[k]]

\* *entry += size
AddToEntry(usages, lang, size) == [usages EXCEPT ![lang] = @ + size]

\* LanguageBreakdown::add_usage: the breakdown after the call
add_usage(b, lang, size) ==
    [usages |-> AddToEntry(or_insert(b.usages, lang, size), lang, size),
     total_size |-> b.total_size + size]

(***************************************************************************)
(* The state machine: a corpus is loaded and registered language by        *)
(* language and rule by rule (main.rs), and the container is queried.      *)
(***************************************************************************)
NamesOf(langs) == { langs[i].name : i \in 1..Len(langs) }

NoOutcome == Outcome(Ok(<<>>), EmptyMap, {})

Init ==
    /\ languages = <<>>
    /\ heuristics = EmptyMap
    /\ op = "new"
    /\ arg = ""
    /\ result = Ok(<<>>)
    /\ probabilities = EmptyMap
    /\ lookups = {}
    /\ language_set = LanguageSet_new
    /\ breakdown = LanguageBreakdown_new

Returns(o, a, out) ==
    /\ op' = o
    /\ arg' = a
    /\ result' = out.result
    /\ probabilities' = out.probabilities
    /\ lookups' = out.lookups
    /\ UNCHANGED <<language_set, breakdown>>

\* load_github_linguist_languages (one entry of the mapping, keys are unique),
\* then InMemoryLanguageContainer::register_language
RegisterLanguage ==
    \E def \in GhLanguageDefs :
        /\ Len(languages) < MaxLangs
        /\ def.name \notin NamesOf(languages)
        /\ languages' = Append(languages, try_into(def))
        /\ Returns("register_language", def.name, NoOutcome)
        /\ UNCHANGED heuristics

\* register_heuristic_rule, were a rule pushed without looking for an equal one
register_heuristic_rule_NoDedup(heur, ext, rule) ==
    IF ext \in DOMAIN heur
    THEN [heur EXCEPT ![ext] = Append(@, rule)]
    ELSE [e \in DOMAIN heur \cup {ext} |-> IF e = ext THEN <<rule>> ELSE heur[e]]

\* InMemoryLanguageContainer::register_heuristic_rule
register_heuristic_rule(heur, ext, rule) ==
    IF ext \in DOMAIN heur
    THEN IF ~ SeqContains(heur[ext], rule)
         THEN [heur EXCEPT ![ext] = Append(@, rule)]
         ELSE heur
    ELSE [e \in DOMAIN heur \cup {ext} |-> IF e = ext THEN <<rule>> ELSE heur[e]]

RegisterHeuristicRule ==
    \E rule \in HeuristicRules : \E ext \in HeuristicExts :
        /\ heuristics' = register_heuristic_rule(heuristics, ext, rule)
        /\ Returns("register_heuristic_rule", ext, NoOutcome)
        /\ UNCHANGED languages

ResolveLanguage ==
    \E file \in Files :
        \E order \in IterationOrders(NamesOf(languages)) :
            /\ Returns("resolve_language", file,
                       resolve_language(languages, heuristics, file, order))
            /\ UNCHANGED <<languages, heuristics>>

Query(o, a, found) ==
    /\ Returns(o, a, Outcome(Ok(found), EmptyMap, {}))
    /\ UNCHANGED <<languages, heuristics>>

GetLanguageByName ==
    \E name \in Names :
        Query("get_language_by_name", name, get_language_by_name(languages, name))

ContainerGetLanguageByName ==
    \E name \in Names :
        Query("container_get_language_by_name", name,
              container_get_language_by_name(languages, name))

GetLanguagesByExtension ==
    \E path \in Paths :
        Query("get_languages_by_extension", path, get_languages_by_extension(languages, path))

GetLanguagesByFilename ==
    \E path \in Paths :
        Query("get_languages_by_filename", path, get_languages_by_filename(languages, path))

\* The files resolve_language_by_content is asked about.
ContentFiles ==
    { File("a.h",    "@interface X\n@end\n"),
      File("a.h",    "int x;\n"),
      File("a.h",    "#include <x>\nint x;\n"),
      File("a.H",    "int x;\n"),
      File("a.txt",  "int x;\n"),
      File("gone.h", NoFile) }

\* main.rs: for h in heuristics { for ext in &h.extensions { register_heuristic_rule(ext, h) } },
\* one rule of the loaded heuristics.yml under one of its extensions
LoadHeuristicRule ==
    \E i \in 1..Len(LoadedHeuristicRules) :
        \E ext \in Elements(LoadedHeuristicRules[i].extensions) :
            /\ heuristics' = register_heuristic_rule(heuristics, ext, LoadedHeuristicRules[i])
            /\ Returns("register_heuristic_rule", ext, NoOutcome)
            /\ UNCHANGED languages

ResolveLanguageByContent ==
    \E file \in ContentFiles :
        /\ Returns("resolve_language_by_content", file,
                   Outcome(resolve_language_by_content(languages, heuristics, file),
                           EmptyMap, {}))
        /\ UNCHANGED <<languages, heuristics>>

\* The paths the file predicates of utils.rs are asked about.
UtilDirs == {"", "src/", "./src/", "docs/", "mydocs/", "x/docs/"}

UtilNames == {"main.rs", ".gitignore", "a.JSON", "a.json", "a.yaml", "README", "."}

UtilPaths == { d \o n : d \in UtilDirs, n \in UtilNames }

Twice(s) == s \o s

RECURSIVE Repeat(_, _)
\* n copies of the text s
Repeat(s, n) ==
    IF n = 0 THEN ""
    ELSE IF n % 2 = 1 THEN s \o Repeat(s, n - 1)
    ELSE Twice(Repeat(s, n \div 2))

\* The files is_binary is asked about: short ones, and ones that reach beyond the
\* first FIRST_FEW_BYTES bytes.
BinaryFiles ==
    { File("a.txt",   "hello\n"),
      File("a.bin",   "he" \o NUL \o "llo" \o NUL),
      File("b.bin",   NUL),
      File("empty",   ""),
      File("c.bin",   Repeat("x", FIRST_FEW_BYTES - 1) \o NUL),
      File("d.bin",   Repeat("x", FIRST_FEW_BYTES) \o NUL),
      File("e.bin",   Repeat("x", FIRST_FEW_BYTES + 1000) \o NUL \o "x"),
      File("big.txt", Repeat("x", FIRST_FEW_BYTES + 1000)),
      File("gone",    NoFile) }

\* a call of a file predicate that returns a bool
Predicate(o, a, b) ==
    /\ Returns(o, a, Outcome(Ok(b), EmptyMap, {}))
    /\ UNCHANGED <<languages, heuristics>>

IsDotfile == \E path \in UtilPaths : Predicate("is_dotfile", path, is_dotfile(path))

IsConfiguration ==
    \E path \in UtilPaths : Predicate("is_configuration", path, is_configuration(path))

\* is_documentation with the RegexSet of the built-in patterns
IsDocumentation ==
    \E path \in UtilPaths : Predicate("is_documentation", path, is_documentation(path, DOCS))

IsBinary ==
    \E file \in BinaryFiles :
        /\ Returns("is_binary", file, Outcome(is_binary(file), EmptyMap, {}))
        /\ UNCHANGED <<languages, heuristics>>

\* languages.yml entries with interpreters
InterpretedLanguageDefs ==
    { GhDef("JavaScript",  "programming", <<"js">>, <<".js">>,          <<>>, <<"node", "nodejs">>),
      GhDef("AppleScript", "programming", <<>>,     <<".applescript">>, <<>>, <<"osascript">>),
      GhDef("Python",      "programming", <<>>,     <<".py">>,          <<>>, <<"python", "python3">>),
      GhDef("Shell",       "programming", <<"sh">>, <<".sh">>,          <<>>, <<"sh", "bash">>),
      GhDef("Ruby",        "programming", <<>>,     <<".rb">>,          <<>>, <<"ruby">>) }

\* The files resolve_languages_by_shebang is asked about.
ShebangFiles ==
    { File("script", "#!/usr/bin/env -S node --experimental\n"),
      File("script", "#!/usr/bin/env\n"),
      File("script", "#!/usr/bin/env python3\nimport x\n"),
      File("script", "#!/usr/bin/env -i $HOME node\n"),
      File("script", "#!/usr/bin/env -S -i\n"),
      File("script", "#!/usr/bin/env FOO=1 node\n"),
      File("script", "#!/usr/bin/env -S ruby\n"),
      File("script", "#!/usr/bin/env -S /\n"),
      File("script", "#!/usr/bin/osascript -l JavaScript\n"),
      File("script", "#!/usr/bin/osascript\n"),
      File("script", "#!/usr/bin/env osascript -l JavaScript\n"),
      File("script", "#!/usr/bin/env osascript\n"),
      File("script", "#!/bin/sh\nexec ruby $0 $@\n"),
      File("script", "#!/bin/sh\necho\n"),
      File("script", "#!/bin/sh\nexec node $0 $@\nexec ruby $0 $@\n"),
      File("script", "#!/bin/sh\n#\n#\n#\n#\nexec ruby $0 $@\n"),
      File("script", "#!/bin/sh\n#\n#\n#\n#\n#\nexec ruby $0 $@\n"),
      File("script", "#!/usr/bin/env sh\n\nexec python3.1 $0 $@\n"),
      File("script", "#!/\n"),
      File("script", "#!..\n"),
      File("script", "#!/usr/bin/env ..\n"),
      File("script", "#! /usr/bin/python3.11\n"),
      File("script", "#!\n"),
      File("script", "int x;\n"),
      File("gone",   NoFile) }

\* load_github_linguist_languages (one entry of the mapping), then register_language
RegisterInterpretedLanguage ==
    \E def \in InterpretedLanguageDefs :
        /\ Len(languages) < MaxLangs
        /\ def.name \notin NamesOf(languages)
        /\ languages' = Append(languages, try_into(def))
        /\ Returns("register_language", def.name, NoOutcome)
        /\ UNCHANGED heuristics

ResolveLanguagesByShebang ==
    \E file \in ShebangFiles :
        /\ Returns("resolve_languages_by_shebang", file,
                   Outcome(resolve_languages_by_shebang(languages, file), EmptyMap, {}))
        /\ UNCHANGED <<languages, heuristics>>

\* InMemoryLanguageContainer::register_language of a language that is registered
\* already: the vector takes it a second time
RegisterLanguageAgain ==
    \E i \in 1..Len(languages) :
        /\ Len(languages) < MaxLangs
        /\ languages' = Append(languages, languages[i])
        /\ Returns("register_language", languages[i].name, NoOutcome)
        /\ UNCHANGED heuristics

\* The patterns of the corpus files of the model: patterns of the supported dialect,
\* and one for each construct is_unsupported_regex_syntax knows.
CorpusPatterns ==
    { "int ", "^vendor/", "(?<!a)b", "a(?=b)", "a(?!b)", "(?>a)b", "(a)\\1", "a*+" }

\* a heuristics.yml with one disambiguation of two rules
HeuristicsDocument(p1, p2) ==
    [disambiguations |->
        << Disambiguation(<<".h">>,
            << YamlRule(Single("C"), None, Some(Single(p1))),
               YamlRule(Single("ObjC"), Some(<<NamedPattern(Some(p2), None)>>), None) >>) >>,
     named_patterns |-> EmptyMap]

\* The heuristics.yml files the loader is given.
HeuristicsDocs ==
    { Parsed(HeuristicsDocument(p1, p2)) : p1 \in CorpusPatterns, p2 \in CorpusPatterns }
        \cup { Parsed(HeuristicsYaml), Unparsable, Missing }

\* The vendor.yml and documentation.yml files the loaders are given: lists of at
\* most two patterns.
PatternDocs ==
    { Parsed(<<>>) } \cup { Parsed(<<p>>) : p \in CorpusPatterns }
        \cup { Parsed(<<p1, p2>>) : p1 \in CorpusPatterns, p2 \in CorpusPatterns }
        \cup { Unparsable, Missing }

\* The languages.yml files the loader is given: mappings of at most two entries.
LanguagesDocs ==
    { Parsed(defs) : defs \in { ds \in SUBSET GhLanguageDefs : Cardinality(ds) <= 2 } }
        \cup { Unparsable, Missing }

\* a call of a loader on a corpus file
Load(o, doc, r) ==
    /\ Returns(o, doc, Outcome(r, EmptyMap, {}))
    /\ UNCHANGED <<languages, heuristics>>

LoadGithubLinguistHeuristics ==
    \E doc \in HeuristicsDocs :
        Load("load_github_linguist_heuristics", doc, load_github_linguist_heuristics(doc))

LoadGithubVendors ==
    \E doc \in PatternDocs : Load("load_github_vendors", doc, load_github_vendors(doc))

LoadGithubDocumentation ==
    \E doc \in PatternDocs :
        Load("load_github_documentation", doc, load_github_documentation(doc))

\* the entries serde_yaml read from a languages.yml
EntriesOf(doc) == IF doc.parses THEN doc.val ELSE {}

\* load_github_linguist_languages; the HashMap of the entries iterates in any order
LoadGithubLinguistLanguages ==
    \E doc \in LanguagesDocs : \E order \in IterationOrders(EntriesOf(doc)) :
        Load("load_github_linguist_languages", doc, load_github_linguist_languages(doc, order))

\* The extensions rules are registered under, and the paths rules are asked for.
RuleExts == {"h", "m"}

RulePaths == {"a.h", "dir/a.h", "a.m", "a.H", "a.txt", "h", ".h", "a."}

\* InMemoryLanguageContainer::register_heuristic_rule of any rule under any extension
RegisterHeuristicRuleUnder ==
    \E rule \in HeuristicRules : \E ext \in RuleExts :
        /\ heuristics' = register_heuristic_rule(heuristics, ext, rule)
        /\ Returns("register_heuristic_rule", [ext |-> ext, rule |-> rule], NoOutcome)
        /\ UNCHANGED languages

GetHeuristicsByExtension ==
    \E path \in RulePaths :
        Query("get_heuristics_by_extension", path,
              get_heuristics_by_extension(heuristics, path))

\* The resolver: a container is filled and files are resolved.
Next ==
    \/ RegisterLanguage
    \/ RegisterHeuristicRule
    \/ ResolveLanguage

Spec == Init /\ [][Next]_vars

\* The container: languages are loaded and registered, and the container is queried.
NextContainer ==
    \/ RegisterLanguage
    \/ GetLanguageByName
    \/ ContainerGetLanguageByName
    \/ GetLanguagesByExtension
    \/ GetLanguagesByFilename

SpecContainer == Init /\ [][NextContainer]_vars

\* The content heuristics: a corpus and the rules of heuristics.yml are loaded and
\* registered, and files are resolved by content.
NextHeuristics ==
    \/ RegisterLanguage
    \/ LoadHeuristicRule
    \/ ResolveLanguageByContent

SpecHeuristics == Init /\ [][NextHeuristics]_vars

\* The file predicates of utils.rs.
NextUtils ==
    \/ IsDotfile
    \/ IsConfiguration
    \/ IsDocumentation
    \/ IsBinary

SpecUtils == Init /\ [][NextUtils]_vars

\* The shebang: languages with interpreters are registered and files are resolved
\* by their shebang.
NextShebang ==
    \/ RegisterInterpretedLanguage
    \/ ResolveLanguagesByShebang

SpecShebang == Init /\ [][NextShebang]_vars

\* The resolver over a container whose caller may register a language twice.
NextVotes ==
    \/ RegisterLanguage
    \/ RegisterLanguageAgain
    \/ RegisterHeuristicRule
    \/ ResolveLanguage

SpecVotes == Init /\ [][NextVotes]_vars

\* The loaders of the corpus files.
NextLoader ==
    \/ LoadGithubLinguistLanguages
    \/ LoadGithubLinguistHeuristics
    \/ LoadGithubVendors
    \/ LoadGithubDocumentation

SpecLoader == Init /\ [][NextLoader]_vars

\* lib.rs: the LanguageInfo values that are registered
LanguageInfos ==
    { LanguageInfo("C", <<>>, <<"h", "c">>, <<>>),
      LanguageInfo("Objective-C", <<"objc">>, <<"h", "m">>, <<>>),
      LanguageInfo("Makefile", <<>>, <<"mk">>, <<"Makefile">>) }

\* the names that are removed
RemovedNames == {"C", "objc", "Makefile", "Rust"}

\* the paths that are resolved
SetPaths == {"a.h", "b.mk", "Makefile", "a.py", ""}

\* the longest index list of the map
WithinIndexes(map) == \A k \in DOMAIN map : Len(map[k]) <= MaxIndexes

\* a call on the LanguageSet returns
Calls(o, a, r) ==
    /\ op' = o
    /\ arg' = a
    /\ result' = r
    /\ UNCHANGED <<languages, heuristics, probabilities, lookups, breakdown>>

\* LanguageSet::register_language
SetRegisterLanguage ==
    \E lang \in LanguageInfos :
        /\ Len(language_set.languages) < MaxLangs
        /\ WithinIndexes(LanguageSet_register_language(language_set, lang).extensions)
        /\ WithinIndexes(LanguageSet_register_language(language_set, lang).filenames)
        /\ language_set' = LanguageSet_register_language(language_set, lang)
        /\ Calls("LanguageSet::register_language", lang, Ok(<<>>))

\* LanguageSet::remove_language_by_name
SetRemoveLanguageByName ==
    \E name \in RemovedNames :
        /\ language_set' = LanguageSet_remove_language_by_name(language_set, name)
        /\ Calls("LanguageSet::remove_language_by_name", name, RemoveResult(language_set, name))

\* LanguageSet::resolve_languages_by_extension
SetResolveLanguagesByExtension ==
    \E path \in SetPaths :
        /\ UNCHANGED language_set
        /\ Calls("LanguageSet::resolve_languages_by_extension", path,
                 LanguageSet_resolve_languages_by_extension(language_set, path))

\* LanguageSet::resolve_languages_by_filename
SetResolveLanguagesByFilename ==
    \E path \in SetPaths :
        /\ UNCHANGED language_set
        /\ Calls("LanguageSet::resolve_languages_by_filename", path,
                 LanguageSet_resolve_languages_by_filename(language_set, path))

\* The language set: languages are registered, removed and resolved.
NextLanguageSet ==
    \/ SetRegisterLanguage
    \/ SetRemoveLanguageByName
    \/ SetResolveLanguagesByExtension
    \/ SetResolveLanguagesByFilename

SpecLanguageSet == Init /\ [][NextLanguageSet]_vars

\* main.rs: the language names and file sizes of the walk
UsageLangs == {"Rust", "C", "Python"}
UsageSizes == 0..3

\* LanguageBreakdown::add_usage
AddUsage ==
    \E lang \in UsageLangs, size \in UsageSizes :
        /\ breakdown.total_size + size <= MaxTotalSize
        /\ breakdown' = add_usage(breakdown, lang, size)
        /\ op' = "add_usage"
        /\ arg' = [lang |-> lang, size |-> size]
        /\ result' = Ok(<<>>)
        /\ UNCHANGED <<languages, heuristics, probabilities, lookups, language_set>>

\* The breakdown: usages are added.
NextBreakdown == AddUsage

SpecBreakdown == Init /\ [][NextBreakdown]_vars

\* The heuristic rules of the container: rules are registered and asked for.
NextRules ==
    \/ RegisterHeuristicRuleUnder
    \/ GetHeuristicsByExtension

SpecRules == Init /\ [][NextRules]_vars

(***************************************************************************)
(* Properties of the resolver, checked under Spec.                         *)
(***************************************************************************)
\* the position of the language of that name in the container
Position(langs, name) == CHOOSE i \in 1..Len(langs) : langs[i].name = name

\* resolve_language returned a language
ReturnedLanguage == op = "resolve_language" /\ result.ok /\ result.val # <<>>

\* the name of the language resolve_language returned
Winner == result.val[1].name

\* the file resolve_language was called on could be read and is binary
ArgIsBinary == arg.content # NoFile /\ is_binary(arg).val

\* C1: when several candidates end with the same highest count, resolve_language
\* returns the one registered earliest in the container.
C1_TieBreakEarliestRegistered ==
    ReturnedLanguage =>
        \A n \in DOMAIN probabilities :
            probabilities[n] = probabilities[Winner]
                => Position(languages, Winner) <= Position(languages, n)

\* the file resolve_language was called on could be read and is not binary
ArgIsText == arg.content # NoFile /\ ~ is_binary(arg).val

\* the languages the shebang of the file votes for (none when it names no interpreter)
ShebangCandidates(file) == Elements(resolve_languages_by_shebang(languages, file).val)

\* C2: for a file that is not binary, every language that lists the interpreter
\* named by the file's shebang receives a vote, and the call does not fail with
\* LanguageNotFound when there is such a language.
C2_ShebangVotes ==
    (op = "resolve_language" /\ ArgIsText) =>
        /\ \A l \in ShebangCandidates(arg) : l.name \in DOMAIN probabilities
        /\ ShebangCandidates(arg) # {} => result # Err("LanguageNotFound")

\* C3: for a binary file resolve_language returns Ok(None) and consults no evidence
\* source, whatever the container holds for the path.
C3_BinaryReturnsNone ==
    (op = "resolve_language" /\ ArgIsBinary) =>
        /\ result = Ok(<<>>)
        /\ lookups = {}
        /\ probabilities = EmptyMap

\* a binary file was resolved with a container that knows the file's extension
C3_Witness ==
    /\ op = "resolve_language"
    /\ ArgIsBinary
    /\ get_languages_by_extension(languages, arg.path) # <<>>
    /\ result = Ok(<<>>)

\* C4: the language resolve_language returns has a count at least as high as every
\* other candidate's.
C4_WinnerHasHighestCount ==
    ReturnedLanguage =>
        /\ Winner \in DOMAIN probabilities
        /\ \A n \in DOMAIN probabilities : probabilities[Winner] >= probabilities[n]

\* a language was returned that has strictly more votes than another candidate
C4_Witness ==
    /\ ReturnedLanguage
    /\ \E n \in DOMAIN probabilities : probabilities[n] < probabilities[Winner]

\* the content heuristics name a language of the container for the file
ContentCandidate(file) ==
    resolve_language_by_content(languages, heuristics, file).ok
        /\ resolve_language_by_content(languages, heuristics, file).val # <<>>

\* no evidence source (filename, shebang, extension, content) yields a candidate
NoEvidence(file) ==
    /\ get_languages_by_filename(languages, file.path) = <<>>
    /\ ShebangCandidates(file) = {}
    /\ get_languages_by_extension(languages, file.path) = <<>>
    /\ ~ ContentCandidate(file)

\* C5: for a readable file that is not binary and for which no evidence source
\* yields a candidate, resolve_language fails with LanguageNotFound; and a language
\* it returns has received a vote.
C5_NoEvidenceIsNotFound ==
    /\ (op = "resolve_language" /\ ArgIsText /\ NoEvidence(arg))
            => result = Err("LanguageNotFound")
    /\ ReturnedLanguage => Winner \in DOMAIN probabilities

\* a text file without any evidence was resolved against a container with languages
C5_Witness ==
    /\ op = "resolve_language"
    /\ ArgIsText
    /\ NoEvidence(arg)
    /\ languages # <<>>
    /\ result = Err("LanguageNotFound")

(***************************************************************************)
(* Properties of the container and the loader, checked under SpecContainer.*)
(***************************************************************************)
\* the extensions stored in the container
StoredExtensions(langs) == UNION { Elements(l.extensions) : l \in LangsOf(langs) }

\* the normal form the specification gives an extension: lowercase, one leading "." stripped
Normalized(e) ==
    IF starts_with(e, ".") THEN to_lowercase(SubSeq(e, 2, Len(e))) ELSE to_lowercase(e)

\* every stored extension is in normal form
StoredExtensionsNormalized == \A e \in StoredExtensions(languages) : e = Normalized(e)

\* C6: get_language_by_name(name) returns the language whose name equals `name`
\* ignoring case, and nothing for a name that is only an alias.
C6_NameLookupIgnoresCase ==
    op = "get_language_by_name" =>
        \A l \in LangsOf(languages) :
            (result.val = <<l>>) <=> (to_lowercase(l.name) = to_lowercase(arg))

\* C7: get_languages_by_extension normalizes the key (lowercase, one leading "."
\* stripped) before the lookup, so with normalized stored extensions the languages
\* returned are those that list the normalized extension (or file name) of the path.
C7_ExtensionKeyNormalized ==
    (op = "get_languages_by_extension" /\ StoredExtensionsNormalized
        /\ extension_key(arg) # <<>>) =>
        result.val = WithExtension(languages, <<Normalized(extension_key(arg)[1])>>)

\* C8: for every language L and every stored extension e of L (multi-part ones
\* included), get_languages_by_extension("x." + e) contains L.
C8_EveryExtensionFindsItsLanguage ==
    \A l \in LangsOf(languages) : \A e \in Elements(l.extensions) :
        SeqContains(get_languages_by_extension(languages, "x." \o e), l)

\* C9: get_languages_by_filename(path) returns the languages that list the final
\* component of the path among their filenames, compared case-sensitively.
C9_FilenameLookupUsesFinalComponent ==
    op = "get_languages_by_filename" =>
        \A l \in LangsOf(languages) :
            SeqContains(result.val, l)
                <=> (file_name(arg) # <<>> /\ SeqContains(l.filenames, file_name(arg)[1]))

\* C10: after loading, no stored extension starts with "." or contains an uppercase
\* character.
C10_StoredExtensionsNormalized ==
    \A e \in StoredExtensions(languages) :
        ~ starts_with(e, ".") /\ e = to_lowercase(e)

(***************************************************************************)
(* Properties of the heuristics loader and of the content heuristics,      *)
(* checked under SpecHeuristics.                                           *)
(***************************************************************************)
\* the heuristic rules registered in the container
RegisteredRules == UNION { Elements(heuristics[ext]) : ext \in DOMAIN heuristics }

\* C11: the language of every heuristic rule the loader produced (rules whose
\* `language` is a list of names included) is the name, up to case, of a language
\* of the loaded corpus.
C11_RuleLanguagesAreKnown ==
    \A R \in RegisteredRules :
        \E def \in GhLanguageDefs : to_lowercase(try_into(def).name) = to_lowercase(R.language)

(***************************************************************************)
(* Properties of the file predicates, checked under SpecUtils.             *)
(***************************************************************************)
\* the last segment of a path: the text after its last "/"
LastSegment(path) == SubSeq(path, LastIndexOf(path, "/") + 1, Len(path))

\* C12: is_dotfile(path) is true iff the last segment of the path starts with "."
\* and is not exactly "."; so src/.gitignore is a dotfile and ./src/main.rs is not.
C12_DotfileByLastSegment ==
    op = "is_dotfile" =>
        (result.val <=> (starts_with(LastSegment(arg), ".") /\ LastSegment(arg) # "."))

\* C13: is_configuration(path) is true iff the lowercased extension of the path is
\* one of xml, json, toml, yaml, ini, sql; a path without extension is not.
C13_ConfigurationIgnoresCase ==
    op = "is_configuration" =>
        (result.val <=>
            (extension(arg) # <<>>
             /\ to_lowercase(extension(arg)[1]) \in {"xml", "json", "toml", "yaml", "ini", "sql"}))

\* the positions of the 0x00 bytes of a content
NulPositions(content) == { i \in 1..Len(content) : Char(content, i) = NUL }

RECURSIVE StripNul(_)
\* the content without its 0x00 bytes
StripNul(content) ==
    IF content = "" THEN ""
    ELSE (IF Char(content, 1) = NUL THEN "" ELSE Char(content, 1))
         \o StripNul(SubSeq(content, 2, Len(content)))

\* is_binary was called on a file that can be read
BinaryChecked == op = "is_binary" /\ arg.content # NoFile

\* C14: for a readable file is_binary is true iff one of the first 8000 bytes is
\* 0x00 (a 0x00 at offset 8000 or later does not count), and a binary file shorter
\* than 8000 bytes is no longer binary once its 0x00 bytes are removed.
C14_BinaryByFirstBytes ==
    BinaryChecked =>
        /\ result.ok
        /\ result.val <=> (\E i \in NulPositions(arg.content) : i - 1 < 8000)
        /\ (result.val /\ Len(arg.content) < 8000)
                => is_binary(File(arg.path, StripNul(arg.content))) = Ok(FALSE)

\* is_binary said no to a file whose only 0x00 byte is at offset 8000 or later
C14_Witness ==
    /\ BinaryChecked
    /\ NulPositions(arg.content) # {}
    /\ \A i \in NulPositions(arg.content) : i - 1 >= 8000
    /\ result = Ok(FALSE)

\* the pattern, anchored to the start of the path or to a "/" when it has no anchor
Anchored(pat) == IF pat.anchor = "" THEN [pat EXCEPT !.anchor = "(^|/)"] ELSE pat

\* the built-in patterns, every one of them anchored
AnchoredDOCS == [k \in 1..Len(DOCS) |-> Anchored(DOCS[k])]

\* C15: every built-in documentation pattern is anchored to the start of the path or
\* to a "/": is_documentation is false for a path that has a documentation directory
\* name only as the tail of a longer segment (mydocs/a.rs), true for docs/a.rs and
\* x/docs/a.rs.
C15_DocumentationPatternsAnchored ==
    op = "is_documentation" =>
        (result.val <=> is_documentation(arg, AnchoredDOCS))

(***************************************************************************)
(* Properties of resolve_languages_by_shebang, checked under SpecShebang.  *)
(***************************************************************************)
\* resolve_languages_by_shebang was called on a readable file that starts with "#!"
ShebangCall ==
    op = "resolve_languages_by_shebang" /\ arg.content # NoFile
        /\ has_shebang(read_line(arg.content))

\* the trimmed text of the first line after "#!"
ShebangLine == trim(SubSeq(read_line(arg.content), 3, Len(read_line(arg.content))))

\* the fields of the shebang line
Fields == split_whitespace(ShebangLine)

\* the first field of the shebang line has the basename env
EnvCall == ShebangCall /\ Fields # <<>> /\ file_name(Fields[1]) = <<"env">>

\* the field is an option of env or a reference to a variable
EnvArgument(f) == env_opt_args(f) \/ env_var_args(f)

\* the fields after env, before the last one, that are not arguments of env
NotEnvArguments(fields) == { k \in 2..(Len(fields) - 1) : ~ EnvArgument(fields[k]) }

\* the index of the field that names the interpreter: the first one after env that
\* is no argument of env, the last field when there is none
InterpreterIndex(fields) ==
    IF NotEnvArguments(fields) = {} THEN Len(fields)
    ELSE CHOOSE k \in NotEnvArguments(fields) : \A j \in NotEnvArguments(fields) : k <= j

\* the languages found for the interpreter named by field k of the shebang line
FoundForField(k) ==
    ByInterpreter(languages,
                  FromBasename(file_name(Fields[k]), AfterLine(arg.content), ShebangLine))

\* C16: with env as the first field's basename, the fields after env that are
\* options (-x) or variables ($X) are discarded one by one until a field is neither
\* or only two fields remain, and the interpreter is the basename of the next field;
\* env alone names no interpreter.
C16_EnvArgumentsAreSkipped ==
    EnvCall =>
        IF Len(Fields) = 1 THEN result = Ok(<<>>)
        ELSE result = FoundForField(InterpreterIndex(Fields))

\* `#!/usr/bin/env -S node --experimental` was resolved to the language of node
C16_Witness ==
    /\ EnvCall
    /\ Fields = <<"/usr/bin/env", "-S", "node", "--experimental">>
    /\ result.ok
    /\ result.val # <<>>
    /\ \A i \in 1..Len(result.val) : SeqContains(result.val[i].interpreters, "node")

\* the interpreter the shebang line names is osascript
OsascriptCall ==
    /\ ShebangCall
    /\ Fields # <<>>
    /\ IF file_name(Fields[1]) = <<"env">>
       THEN Len(Fields) > 1 /\ file_name(Fields[InterpreterIndex(Fields)]) = <<"osascript">>
       ELSE file_name(Fields[1]) = <<"osascript">>

\* C17: when the interpreter is osascript and the shebang line contains "-l", no
\* candidate is returned, even if a language lists osascript; without "-l" the
\* languages that list osascript are returned.
C17_OsascriptWithLanguageOption ==
    OsascriptCall =>
        IF str_contains(ShebangLine, "-l") THEN result = Ok(<<>>)
        ELSE result = Ok(get_languages_by_interpreter(languages, "osascript"))

\* osascript -l was resolved to nothing although a language lists osascript
C17_Witness ==
    /\ OsascriptCall
    /\ str_contains(ShebangLine, "-l")
    /\ get_languages_by_interpreter(languages, "osascript") # <<>>
    /\ result = Ok(<<>>)

\* resolve_language_by_content was called on a file that can be read
ContentCall == op = "resolve_language_by_content" /\ arg.content # NoFile

\* the rules stored for the extension of the file
StoredRules == get_heuristics_by_extension(heuristics, arg.path)

\* the alternation of the patterns of rule k
Alternation(k) == Join(StoredRules[k].patterns, "|")

\* the alternation of rule k compiles
Compiles(k) == ~ RegexNewFails(Alternation(k))

\* the alternation of rule k compiles and matches the content of the file
Matches(k) == Compiles(k) /\ RegexIsMatch(Alternation(k), arg.content)

\* rule k is the first rule that matches
FirstMatch(k) == Matches(k) /\ \A j \in 1..(k - 1) : ~ Matches(j)

\* what the lookup of the language of rule k returns
LanguageOfRule(k) == Ok(get_language_by_name(languages, StoredRules[k].language))

C19_CompileErrorSkipsRule ==
    ContentCall =>
        \A k \in 1..Len(StoredRules) : FirstMatch(k) => result = LanguageOfRule(k)

(***************************************************************************)
(* Vote accounting, checked under SpecVotes.                               *)
(***************************************************************************)
\* the names of the languages of a list
NamesIn(list) == { list[i].name : i \in 1..Len(list) }

\* the names each evidence source lists for the file resolve_language was called on
FilenameNames == NamesIn(get_languages_by_filename(languages, arg.path))

ExtensionNames == NamesIn(get_languages_by_extension(languages, arg.path))

ContentNames == NamesIn(resolve_language_by_content(languages, heuristics, arg).val)

\* 1 when the name is in the set, else 0
CountIn(n, names) == IF n \in names THEN 1 ELSE 0

\* the number of evidence sources that list the name
SourcesNaming(n) ==
    CountIn(n, FilenameNames) + CountIn(n, ExtensionNames) + CountIn(n, ContentNames)

\* C20: at the end of evidence collection the candidates are the languages some
\* source listed, and the count of each is 1 + the number of sources whose list
\* contained it: a source adds at most 1 to a candidate, however often the
\* candidate is in its list.
C20_OneVotePerSource ==
    (op = "resolve_language" /\ ArgIsText) =>
        /\ DOMAIN probabilities = FilenameNames \cup ExtensionNames \cup ContentNames
        /\ \A n \in DOMAIN probabilities : probabilities[n] = 1 + SourcesNaming(n)

(***************************************************************************)
(* Properties of the loaders, checked under SpecLoader.                    *)
(***************************************************************************)
\* the constructs outside the supported dialect, as the specification lists them
UnsupportedConstructs == {"(?<", "(?=", "(?!", "(?>", "\\1", "*+"}

\* the pattern has a construct outside the supported dialect
Unsupported(pattern) == \E c \in UnsupportedConstructs : str_contains(pattern, c)

\* one of the patterns of the rule is outside the supported dialect
UnsupportedRule(rule) == \E i \in 1..Len(rule.patterns) : Unsupported(rule.patterns[i])

RECURSIVE SupportedRules(_)
\* the rules of a list that are within the supported dialect, in their order
SupportedRules(rules) ==
    IF rules = <<>> THEN <<>>
    ELSE (IF UnsupportedRule(Head(rules)) THEN <<>> ELSE <<Head(rules)>>)
         \o SupportedRules(Tail(rules))

\* the heuristics loader was called on a file it could read and parse
HeuristicsLoaded == op = "load_github_linguist_heuristics" /\ arg.readable /\ arg.parses

\* C21: a heuristic rule one of whose patterns has a construct outside the supported
\* dialect is not in the list the heuristics loader returns, and the load succeeds
\* with the remaining rules.
C21_UnsupportedRulesDropped ==
    HeuristicsLoaded =>
        /\ result.ok
        /\ \A i \in 1..Len(result.val) : ~ UnsupportedRule(result.val[i])
        /\ result.val = SupportedRules(RulesIfParsed(arg))

\* a loader was called on a file that can be read and cannot be parsed
UnparsableLoaded ==
    /\ op \in {"load_github_linguist_languages", "load_github_linguist_heuristics",
               "load_github_vendors", "load_github_documentation"}
    /\ arg.readable
    /\ ~ arg.parses

\* C22: a loader whose corpus file cannot be parsed into its expected shape returns
\* a Deserialize error: it neither succeeds with an empty result nor aborts.
C22_UnparsableFileIsDeserializeError ==
    UnparsableLoaded => result = Err("DeserializationError")

(***************************************************************************)
(* Properties of the heuristic rules of the container, checked under       *)
(* SpecRules.                                                              *)
(***************************************************************************)
\* the rules stored under an extension, none when nothing was registered under it
RulesUnder(heur, ext) == IF ext \in DOMAIN heur THEN heur[ext] ELSE <<>>

\* no rule is twice in the list
NoDuplicates(rules) == \A i, j \in 1..Len(rules) : rules[i] = rules[j] => i = j

\* a path with an extension gets the rules stored under it, a path without one gets none
RulesByExtensionOnly ==
    op = "get_heuristics_by_extension" =>
        result.val = (IF extension(arg) = <<>> THEN <<>>
                      ELSE RulesUnder(heuristics, extension(arg)[1]))

\* a registration appends the rule to the list of its extension unless the list has
\* an equal rule, and leaves the lists of the other extensions alone
RegistrationAppendsOnce ==
    op' = "register_heuristic_rule" =>
        /\ DOMAIN heuristics' = DOMAIN heuristics \cup {arg'.ext}
        /\ \A e \in DOMAIN heuristics :
                e # arg'.ext => heuristics'[e] = heuristics[e]
        /\ heuristics'[arg'.ext] =
                IF SeqContains(RulesUnder(heuristics, arg'.ext), arg'.rule)
                THEN RulesUnder(heuristics, arg'.ext)
                ELSE Append(RulesUnder(heuristics, arg'.ext), arg'.rule)

\* C23: after any sequence of register_heuristic_rule calls the list of an extension
\* holds each distinct rule registered under it once, in the order of first
\* registration; registering an equal rule again changes nothing; a path without
\* an extension gets no rules.
C23_RulesKeptOnceInOrder ==
    /\ [](\A e \in DOMAIN heuristics : NoDuplicates(heuristics[e]))
    /\ []RulesByExtensionOnly
    /\ [][RegistrationAppendsOnce]_vars

\* a rule was registered a second time under an extension that holds a later rule
C23_Witness ==
    /\ op = "register_heuristic_rule"
    /\ Len(heuristics[arg.ext]) >= 2
    /\ heuristics[arg.ext][1] = arg.rule

\* the interpreter the shebang line names, before the sh, python and osascript steps
NamedInterpreter ==
    IF file_name(Fields[1]) = <<"env">>
    THEN file_name(Fields[InterpreterIndex(Fields)])
    ELSE file_name(Fields[1])

\* the shebang line names the interpreter sh
ShCall ==
    /\ ShebangCall
    /\ Fields # <<>>
    /\ file_name(Fields[1]) = <<"env">> => Len(Fields) > 1
    /\ NamedInterpreter = <<"sh">>

\* the lines of the file after the shebang line
LinesAfterShebang == Split(AfterLine(arg.content), "\n")

\* the lines, among the next n after the shebang line, that match the exec pattern
ExecLinesWithin(n) ==
    { k \in 1..Len(LinesAfterShebang) : k <= n /\ shebang_exec_is_match(LinesAfterShebang[k]) }

\* the first of a set of line numbers
FirstLine(ks) == CHOOSE k \in ks : \A j \in ks : k <= j

\* the interpreter of a sh script: the command of the first exec line among the
\* next 5 lines, sh without one
ShInterpreter ==
    IF ExecLinesWithin(5) = {} THEN "sh"
    ELSE shebang_exec_capture(LinesAfterShebang[FirstLine(ExecLinesWithin(5))])

\* C24: when the interpreter is sh, at most the next 5 lines after the shebang line
\* are scanned for `exec (\w+).+\$0.+\$@`; the first matching line gives the
\* interpreter (the captured command), and without a match in those lines the
\* interpreter stays sh.
C24_ShExecWithinFiveLines ==
    ShCall =>
        result = ByInterpreter(languages,
                               Ok(<<Osascript(PythonTruncate(ShInterpreter), ShebangLine)>>))

\* a sh script whose only exec line is beyond the next 5 lines was resolved as sh
C24_Witness ==
    /\ ShCall
    /\ ExecLinesWithin(5) = {}
    /\ ExecLinesWithin(Len(LinesAfterShebang)) # {}
    /\ result.ok
    /\ result.val # <<>>
    /\ result.val = get_languages_by_interpreter(languages, "sh")

\* C25: for every file that can be opened resolve_languages_by_shebang completes
\* with a value and never aborts; a first line without "#!" or with nothing after
\* "#!" gives None, and a field without a final path component (`#!/`, `#!..`,
\* `#!/usr/bin/env ..`) gives a value too.
C25_ShebangNeverAborts ==
    (op = "resolve_languages_by_shebang" /\ arg.content # NoFile) =>
        /\ result # Err("panic")
        /\ (~ has_shebang(read_line(arg.content)) \/ Fields = <<>>) => result = Ok(<<>>)


(***************************************************************************)
(* Properties of the LanguageSet, checked under SpecLanguageSet.           *)
(***************************************************************************)
\* every index of the map is within the vector and refers to a language that
\* lists the key in that field
IndexesConsistent(set, map, field) ==
    \A k \in DOMAIN map : \A i \in 1..Len(map[k]) :
        /\ map[k][i] < Len(set.languages)
        /\ SeqContains(set.languages[map[k][i] + 1][field], k)

\* the stored languages that list the file name, in registration order
WithFilename(langs, name) ==
    Filter(langs, { l \in LangsOf(langs) : SeqContains(l.filenames, name) })

\* C26: after any sequence of register_language and remove_language_by_name
\* calls every index of the extension index and of the filename index is
\* smaller than the number of stored languages and refers to a language that
\* lists that extension or filename; resolve_languages_by_extension and
\* resolve_languages_by_filename return exactly the stored languages of the
\* key in registration order, and None, without aborting, for a key no
\* language has.
C26_IndexesConsistent ==
    /\ IndexesConsistent(language_set, language_set.extensions, "extensions")
    /\ IndexesConsistent(language_set, language_set.filenames, "filenames")
    /\ op = "LanguageSet::resolve_languages_by_extension"
         => result = Ok(WithExtension(language_set.languages, extension_key(arg)))
    /\ op = "LanguageSet::resolve_languages_by_filename"
         => result = Ok(WithFilename(language_set.languages, arg))


(***************************************************************************)
(* Properties of the LanguageBreakdown, checked under SpecBreakdown.       *)
(***************************************************************************)
\* the size stored for the language, 0 without an entry
UsageOf(b, lang) == IF lang \in DOMAIN b.usages THEN b.usages[lang] ELSE 0

RECURSIVE SumOver(_, _)
\* the sum of the sizes stored for the languages of the set
SumOver(b, langs) ==
    IF langs = {} THEN 0
    ELSE UsageOf(b, CHOOSE l \in langs : TRUE)
           + SumOver(b, langs \ {CHOOSE l \in langs : TRUE})

\* a call of add_usage adds its size to the language it names and to no other
AddsItsSize ==
    \A lang \in UsageLangs :
        UsageOf(breakdown', lang)
          = UsageOf(breakdown, lang) + (IF arg'.lang = lang THEN arg'.size ELSE 0)

\* the sizes stored for the languages add up to total_size
UsagesSumToTotal == SumOver(breakdown, DOMAIN breakdown.usages) = breakdown.total_size

\* C27: after any sequence of add_usage calls the size stored for each
\* language is the sum of the sizes added for that language, and the sizes
\* of all languages add up to total_size.
C27_BreakdownAccumulates ==
    /\ [][op' = "add_usage" => AddsItsSize]_vars
    /\ [](UsagesSumToTotal)

====
